---- MODULE Spec2Model ----
(***************************************************************************)
(* Parameter cells (caustic/param.py) and the flat Lambda-CDM cosmology    *)
(* module (caustics/cosmology.py) as state machines.                       *)
(*                                                                         *)
(*   ParamSpec : one Param object, constructed and converted with to().    *)
(*   ToSpec    : one FlatLambdaCDM object, constructed and converted.      *)
(*   Spec      : one FlatLambdaCDM object and calls of its decorated       *)
(*               methods.                                                  *)
(***************************************************************************)
EXTENDS Integers, Sequences, FiniteSets, TLC

VARIABLES
    param,   \* the Param object under construction/conversion, or None
    cosmo,   \* the FlatLambdaCDM object: its Param store and helper grids, or None
    last     \* record of the last operation: its arguments and its outcome

vars == <<param, cosmo, last>>

(***************************************************************************)
(* Python values are records, so that any two of them can be compared.     *)
(* None, and "argument not passed".                                        *)
(***************************************************************************)
None == [none |-> TRUE]
Omitted == [omitted |-> TRUE]

(***************************************************************************)
(* Bounds of the model.                                                    *)
(***************************************************************************)
MaxExtent == 2   \* tensors are scalars or vectors of length 1..MaxExtent
MaxData == 2     \* tensor contents range over 0..MaxData
MaxVal == 2      \* keyword overrides of cosmology calls range over 1..MaxVal
MaxPacked == 1   \* entries of Packed containers range over 1..MaxPacked

(***************************************************************************)
(* Tensors.  A tensor is its shape, device, dtype and contents; contents   *)
(* are one integer (all entries alike) counted in float64 units, of which  *)
(* float32 holds only the multiples of Ulp32.                              *)
(***************************************************************************)
cpu == [device |-> "cpu"]
cuda == [device |-> "cuda"]
Devices == {cpu, cuda}

float32 == [dtype |-> "float32"]
float64 == [dtype |-> "float64"]
DTypes == {float32, float64}
Ulp32 == 2

\* a shape: the tuple of extents
Size(dims) == [dims |-> dims]
Shapes == {Size(<<>>)} \cup {Size(<<n>>) : n \in 1..MaxExtent}

Cast(data, dtype) == IF dtype = float32 THEN data - (data % Ulp32) ELSE data

Tensor(shape, device, dtype, data) ==
    [shape |-> shape, device |-> device, dtype |-> dtype, data |-> Cast(data, dtype)]

Tensors == {Tensor(s, d, t, x) : s \in Shapes, d \in Devices, t \in DTypes, x \in 0..MaxData}

\* Tensor.to(device=device, dtype=dtype): an absent argument keeps what the tensor has
Tensor_to(t, device, dtype) ==
    LET dev == IF device = None THEN t.device ELSE device
        dt == IF dtype = None THEN t.dtype ELSE dtype
    IN  [shape |-> t.shape, device |-> dev, dtype |-> dt, data |-> Cast(t.data, dt)]

(***************************************************************************)
(* Param                                                                   *)
(***************************************************************************)
\* default of the shape argument of Param.__init__
Param_shape_default == Size(<<>>)

NoRaise == "none"

\* Param.__init__(value, shape): the exception raised and the object built
Param_init_unchecked(value, shape) ==
    [raised |-> NoRaise, obj |-> [value |-> value, shape |-> shape]]
Param_init(value, shape) ==
    IF value = None
    THEN [raised |-> NoRaise, obj |-> [value |-> value, shape |-> shape]]
    ELSE IF shape # None /\ shape # value.shape
         THEN [raised |-> "ValueError", obj |-> None]
         ELSE [raised |-> NoRaise, obj |-> [value |-> value, shape |-> shape]]

\* Param.dynamic
Param_dynamic(p) == p.value = None

\* Param.static
Param_static(p) == ~Param_dynamic(p)

\* Param.to(device, dtype)
Param_to_drops_value(p, device, dtype) == [p EXCEPT !.value = None]
Param_to_on_dynamic(p, device, dtype) ==
    [p EXCEPT !.value = Tensor(p.shape, IF device = None THEN cpu ELSE device,
                               IF dtype = None THEN float32 ELSE dtype, 0)]
Param_to(p, device, dtype) ==
    IF p.value # None
    THEN [p EXCEPT !.value = Tensor_to(p.value, device, dtype)]
    ELSE p

NoOp == [op |-> "none"]

\* p = Param(value, shape), with shape as passed (a tuple, None, or not passed)
Construct(value, shape) ==
    LET r == Param_init(value, IF shape = Omitted THEN Param_shape_default ELSE shape)
    IN  /\ param' = r.obj
        /\ last' = [op |-> "Param", value |-> value, shape |-> shape,
                    raised |-> r.raised]
        /\ UNCHANGED cosmo

\* p = Param(value, shape) / p = Param(value) / p = Param(shape=shape) / p = Param()
ParamConstruct ==
    \E value \in Tensors \cup {None}, shape \in Shapes \cup {None, Omitted} :
        Construct(value, shape)

\* p.to(device, dtype)
ParamTo ==
    /\ param # None
    /\ \E device \in Devices \cup {None}, dtype \in DTypes \cup {None} :
        /\ param' = Param_to(param, device, dtype)
        /\ last' = [op |-> "Param.to", device |-> device, dtype |-> dtype,
                    before |-> param]
    /\ UNCHANGED cosmo

ParamInit == param = None /\ cosmo = None /\ last = NoOp

ParamNext == ParamConstruct \/ ParamTo

ParamSpec == ParamInit /\ [][ParamNext]_vars

(***************************************************************************)
(* FlatLambdaCDM: construction and device/dtype conversion                 *)
(***************************************************************************)
\* the module-level defaults (floats), in the units of tensor contents
h0_default == 6
critical_density_0_default == 8
Om0_default == 4

\* the module-level helper grids, float64 on the cpu
GridPoints == 500
XGridData == 1
YGridData == 3
comoving_distance_helper_x_grid == Tensor(Size(<<GridPoints>>), cpu, float64, XGridData)
comoving_distance_helper_y_grid == Tensor(Size(<<GridPoints>>), cpu, float64, YGridData)

\* the parameters FlatLambdaCDM registers, in registration order
ParamNames == <<"h0", "critical_density_0", "Om0">>
Names == {ParamNames[i] : i \in DOMAIN ParamNames}

\* torch.tensor(x) of a Python float
torch_tensor(x) == Tensor(Size(<<>>), cpu, float32, x)

\* Parametrized.add_param(name, value): registers Param(value) under name
add_param(value) == Param_init(value, Param_shape_default).obj

\* FlatLambdaCDM.__init__(h0, critical_density_0, Om0), each a tensor, None,
\* or not passed
FlatLambdaCDM_init_h0_unset(h0, critical_density_0, Om0) ==
    [params |-> [n \in Names |->
                   add_param(CASE n = "h0" -> None
                               [] n = "critical_density_0" ->
                                    IF critical_density_0 = Omitted
                                    THEN torch_tensor(critical_density_0_default)
                                    ELSE critical_density_0
                               [] n = "Om0" ->
                                    IF Om0 = Omitted THEN torch_tensor(Om0_default)
                                    ELSE Om0)],
     x_grid |-> Tensor_to(comoving_distance_helper_x_grid, None, float32),
     y_grid |-> Tensor_to(comoving_distance_helper_y_grid, None, float32)]
FlatLambdaCDM_init(h0, critical_density_0, Om0) ==
    LET arg == [n \in Names |->
                  CASE n = "h0" ->
                         IF h0 = Omitted THEN torch_tensor(h0_default) ELSE h0
                    [] n = "critical_density_0" ->
                         IF critical_density_0 = Omitted
                         THEN torch_tensor(critical_density_0_default)
                         ELSE critical_density_0
                    [] n = "Om0" ->
                         IF Om0 = Omitted THEN torch_tensor(Om0_default) ELSE Om0]
    IN  [params |-> [n \in Names |-> add_param(arg[n])],
         x_grid |-> Tensor_to(comoving_distance_helper_x_grid, None, float32),
         y_grid |-> Tensor_to(comoving_distance_helper_y_grid, None, float32)]

\* Parametrized.to(device, dtype): applies to every owned Param (FlatLambdaCDM
\* has no child modules)
Parametrized_to(self, device, dtype) ==
    [self EXCEPT !.params = [n \in Names |-> Param_to(self.params[n], device, dtype)]]

\* FlatLambdaCDM.to(device, dtype)
FlatLambdaCDM_to_params_only(self, device, dtype) == Parametrized_to(self, device, dtype)
FlatLambdaCDM_to(self, device, dtype) ==
    LET s == Parametrized_to(self, device, dtype)
    IN  [s EXCEPT !.y_grid = Tensor_to(s.y_grid, device, dtype),
                  !.x_grid = Tensor_to(s.x_grid, device, dtype)]

\* scalar tensors a caller may hand to the constructor
Scalars == {t \in Tensors : t.shape = Size(<<>>)}

\* cosmo.to(device, dtype)
CosmoTo ==
    /\ cosmo # None
    /\ \E device \in Devices \cup {None}, dtype \in DTypes \cup {None} :
        /\ cosmo' = FlatLambdaCDM_to(cosmo, device, dtype)
        /\ last' = [op |-> "FlatLambdaCDM.to", device |-> device, dtype |-> dtype,
                    before |-> cosmo]
    /\ UNCHANGED param

\* cosmo = FlatLambdaCDM(h0, critical_density_0, Om0)
ToInit ==
    /\ param = None
    /\ last = NoOp
    /\ \E h0 \in Scalars \cup {None, Omitted},
          critical_density_0 \in Scalars \cup {None, Omitted},
          Om0 \in Scalars \cup {None, Omitted} :
          cosmo = FlatLambdaCDM_init(h0, critical_density_0, Om0)

ToNext == CosmoTo

ToSpec == ToInit /\ [][ToNext]_vars

(***************************************************************************)
(* Calls of decorated methods.                                             *)
(*                                                                         *)
(* A call returns [raised, value, seen]: the exception it ends with, the   *)
(* tensor it returns, and the params containers against which the call and *)
(* the decorated calls nested in it resolved their parameters.  Numeric    *)
(* results are terms: the formula applied and the operands it read.        *)
(***************************************************************************)
\* a Packed container: the module's dynamic values by parameter name
Packed(entries) == [entries |-> entries]

\* keyword arguments restricted to / without the names S
Only(kwargs, S) == [n \in (DOMAIN kwargs) \cap S |-> kwargs[n]]
Without(kwargs, S) == [n \in (DOMAIN kwargs) \ S |-> kwargs[n]]
NoKwargs == [n \in {} |-> None]

\* unpack, step 2: the value bound to one declared name
resolve(self, name, params, kwargs) ==
    IF name \in DOMAIN kwargs /\ kwargs[name] # None
    THEN [raised |-> NoRaise, value |-> kwargs[name]]
    ELSE IF name \notin DOMAIN self.params
    THEN [raised |-> "UnknownParam", value |-> None]
    ELSE IF Param_static(self.params[name])
    THEN [raised |-> NoRaise, value |-> self.params[name].value]
    ELSE IF params = None \/ name \notin DOMAIN params.entries
    THEN [raised |-> "UnresolvedDynamicParam", value |-> None]
    ELSE [raised |-> NoRaise, value |-> params.entries[name]]

\* unpack, steps 1-2: the values bound to the declared names (a sequence, in
\* declaration order), or the first exception
unpack(self, declared, params, kwargs) ==
    LET r == [n \in {declared[i] : i \in DOMAIN declared} |->
                 resolve(self, n, params, kwargs)]
        bad == {i \in DOMAIN declared : r[declared[i]].raised # NoRaise}
        first == CHOOSE i \in bad : \A j \in bad : i <= j
    IN  [raised |-> IF bad = {} THEN NoRaise ELSE r[declared[first]].raised,
         bound |-> [n \in DOMAIN r |-> r[n].value]]

\* the outcome of a call that raises while resolving its own parameters
Raises(exc, params) == [raised |-> exc, value |-> None, seen |-> {params}]

\* the outcome of a body: the nested calls it made, in order, then its value
Returns(params, nested, value) ==
    LET bad == {i \in DOMAIN nested : nested[i].raised # NoRaise}
        first == CHOOSE i \in bad : \A j \in bad : i <= j
        ran == IF bad = {} THEN DOMAIN nested ELSE 1..first
    IN  [raised |-> IF bad = {} THEN NoRaise ELSE nested[first].raised,
         value |-> IF bad = {} THEN value ELSE None,
         seen |-> {params} \cup UNION {nested[i].seen : i \in ran}]

\* the keyword parameters the FlatLambdaCDM methods declare
Declared == <<"h0", "critical_density_0", "Om0">>
DeclaredNames == {Declared[i] : i \in DOMAIN Declared}

\* FlatLambdaCDM._comoving_distance_helper(x, params)
comoving_distance_helper(self, x, params, kwargs) ==
    Returns(params, <<>>,
            [f |-> "interp1d", x_grid |-> self.x_grid, y_grid |-> self.y_grid, x |-> x])

\* FlatLambdaCDM.comoving_distance(z, params, **kwargs)
comoving_distance_body(self, z, params, h0, critical_density_0, Om0, kwargs) ==
    LET ratio == [f |-> "ratio", Om0 |-> Om0]
        DC1z == comoving_distance_helper(self, [f |-> "(1+z)*ratio", z |-> z, ratio |-> ratio],
                                         params, NoKwargs)
        DC == comoving_distance_helper(self, ratio, params, NoKwargs)
    IN  Returns(params, <<DC1z, DC>>,
                [f |-> "comoving_distance", h0 |-> h0, Om0 |-> Om0,
                 DC1z |-> DC1z.value, DC |-> DC.value])

comoving_distance(self, z, params, kwargs) ==
    LET r == unpack(self, Declared, params, kwargs)
    IN  IF r.raised # NoRaise THEN Raises(r.raised, params)
        ELSE comoving_distance_body(self, z, params, r.bound["h0"],
                 r.bound["critical_density_0"], r.bound["Om0"],
                 Without(kwargs, DeclaredNames))

\* FlatLambdaCDM.critical_density(z, params, **kwargs)
critical_density_body(self, z, params, h0, critical_density_0, Om0, kwargs) ==
    Returns(params, <<>>,
            [f |-> "critical_density", critical_density_0 |-> critical_density_0,
             Om0 |-> Om0, z |-> z])

critical_density(self, z, params, kwargs) ==
    LET r == unpack(self, Declared, params, kwargs)
    IN  IF r.raised # NoRaise THEN Raises(r.raised, params)
        ELSE critical_density_body(self, z, params, r.bound["h0"],
                 r.bound["critical_density_0"], r.bound["Om0"],
                 Without(kwargs, DeclaredNames))

\* FlatLambdaCDM.transverse_comoving_distance(z, params, **kwargs)
transverse_comoving_distance_body(self, z, params, h0, critical_density_0, Om0, kwargs) ==
    LET d == comoving_distance(self, z, params, kwargs)
    IN  Returns(params, <<d>>, d.value)

transverse_comoving_distance(self, z, params, kwargs) ==
    LET r == unpack(self, Declared, params, kwargs)
    IN  IF r.raised # NoRaise THEN Raises(r.raised, params)
        ELSE transverse_comoving_distance_body(self, z, params, r.bound["h0"],
                 r.bound["critical_density_0"], r.bound["Om0"],
                 Without(kwargs, DeclaredNames))

\* Cosmology.comoving_distance_z1z2(z1, z2, params, **kwargs)
comoving_distance_z1z2_forwards(self, z1, z2, params, kwargs) ==
    LET a == comoving_distance(self, z2, params, kwargs)
        b == comoving_distance(self, z1, params, kwargs)
    IN  Returns(params, <<a, b>>, [f |-> "-", a |-> a.value, b |-> b.value])
comoving_distance_z1z2(self, z1, z2, params, kwargs) ==
    LET a == comoving_distance(self, z2, params, NoKwargs)
        b == comoving_distance(self, z1, params, NoKwargs)
    IN  Returns(params, <<a, b>>, [f |-> "-", a |-> a.value, b |-> b.value])

\* Cosmology.transverse_comoving_distance_z1z2(z1, z2, params, **kwargs)
transverse_comoving_distance_z1z2(self, z1, z2, params, kwargs) ==
    LET a == transverse_comoving_distance(self, z2, params, NoKwargs)
        b == transverse_comoving_distance(self, z1, params, NoKwargs)
    IN  Returns(params, <<a, b>>, [f |-> "-", a |-> a.value, b |-> b.value])

\* Cosmology.angular_diameter_distance(z, params, **kwargs)
angular_diameter_distance_drops_params(self, z, params, kwargs) ==
    LET d == comoving_distance(self, z, None, kwargs)
    IN  Returns(params, <<d>>, [f |-> "/(1+z)", a |-> d.value, z |-> z])
angular_diameter_distance(self, z, params, kwargs) ==
    LET d == comoving_distance(self, z, params, kwargs)
    IN  Returns(params, <<d>>, [f |-> "/(1+z)", a |-> d.value, z |-> z])

\* Cosmology.angular_diameter_distance_z1z2(z1, z2, params, **kwargs)
angular_diameter_distance_z1z2(self, z1, z2, params, kwargs) ==
    LET d == comoving_distance_z1z2(self, z1, z2, params, kwargs)
    IN  Returns(params, <<d>>, [f |-> "/(1+z)", a |-> d.value, z |-> z2])

\* Cosmology.time_delay_distance(z_l, z_s, params, **kwargs)
time_delay_distance(self, z_l, z_s, params, kwargs) ==
    LET d_l == angular_diameter_distance(self, z_l, params, NoKwargs)
        d_s == angular_diameter_distance(self, z_s, params, NoKwargs)
        d_ls == angular_diameter_distance_z1z2(self, z_l, z_s, params, NoKwargs)
    IN  Returns(params, <<d_l, d_s, d_ls>>,
                [f |-> "(1+z_l)*d_l*d_s/d_ls", z_l |-> z_l, d_l |-> d_l.value,
                 d_s |-> d_s.value, d_ls |-> d_ls.value])

\* Cosmology.critical_surface_density(z_l, z_s, params, **kwargs)
critical_surface_density(self, z_l, z_s, params, kwargs) ==
    LET d_l == angular_diameter_distance(self, z_l, params, NoKwargs)
        d_s == angular_diameter_distance(self, z_s, params, NoKwargs)
        d_ls == angular_diameter_distance_z1z2(self, z_l, z_s, params, NoKwargs)
    IN  Returns(params, <<d_l, d_s, d_ls>>,
                [f |-> "d_s/(4*pi*G_over_c2*d_l*d_ls)", d_l |-> d_l.value,
                 d_s |-> d_s.value, d_ls |-> d_ls.value])

\* the decorated methods, by the number of redshifts they take
Methods1 == {"critical_density", "comoving_distance", "transverse_comoving_distance",
             "angular_diameter_distance", "_comoving_distance_helper"}
Methods2 == {"comoving_distance_z1z2", "transverse_comoving_distance_z1z2",
             "angular_diameter_distance_z1z2", "time_delay_distance",
             "critical_surface_density"}

\* the methods that declare h0, critical_density_0 and Om0
Declaring == {"critical_density", "comoving_distance", "transverse_comoving_distance"}

\* getattr(self, method)(z1[, z2], params=params, **kwargs)
Call(self, method, z1, z2, params, kwargs) ==
    CASE method = "critical_density" -> critical_density(self, z1, params, kwargs)
      [] method = "comoving_distance" -> comoving_distance(self, z1, params, kwargs)
      [] method = "transverse_comoving_distance" ->
             transverse_comoving_distance(self, z1, params, kwargs)
      [] method = "angular_diameter_distance" ->
             angular_diameter_distance(self, z1, params, kwargs)
      [] method = "_comoving_distance_helper" ->
             comoving_distance_helper(self, z1, params, kwargs)
      [] method = "comoving_distance_z1z2" ->
             comoving_distance_z1z2(self, z1, z2, params, kwargs)
      [] method = "transverse_comoving_distance_z1z2" ->
             transverse_comoving_distance_z1z2(self, z1, z2, params, kwargs)
      [] method = "angular_diameter_distance_z1z2" ->
             angular_diameter_distance_z1z2(self, z1, z2, params, kwargs)
      [] method = "time_delay_distance" ->
             time_delay_distance(self, z1, z2, params, kwargs)
      [] method = "critical_surface_density" ->
             critical_surface_density(self, z1, z2, params, kwargs)

\* the tensors callers pass as overrides and put into Packed containers
Val(n) == Tensor(Size(<<>>), cpu, float64, n)
Overrides == {Val(n) : n \in 1..MaxVal}
Dynamics == {Val(n) : n \in 1..MaxPacked}

\* the tensors callers pass as redshift (or as the helper's x), by name: a lens
\* and a source behind it
Redshifts == {"z_l", "z_s"}

PartialMaps(V) == UNION {[S -> V] : S \in SUBSET Names}
Packeds == {Packed(e) : e \in PartialMaps(Dynamics)}
Kwargs == PartialMaps(Overrides \cup {None})

\* result = cosmo.<method>(z1[, z2], params, **kwargs)
CallMethod(method, z1, z2) ==
    /\ cosmo # None
    /\ last.op # "call"
    /\ \E params \in Packeds \cup {None}, kwargs \in Kwargs :
        /\ last' = [op |-> "call", method |-> method, z1 |-> z1, z2 |-> z2,
                    params |-> params, kwargs |-> kwargs, before |-> cosmo,
                    result |-> Call(cosmo, method, z1, z2, params, kwargs)]
        /\ UNCHANGED <<param, cosmo>>

CallMethods ==
    \/ \E method \in Methods1, z \in Redshifts : CallMethod(method, z, z)
    \/ \E method \in Methods2 : CallMethod(method, "z_l", "z_s")

\* the caller drops the result
Return ==
    /\ last.op = "call"
    /\ last' = NoOp
    /\ UNCHANGED <<param, cosmo>>

\* cosmo = FlatLambdaCDM(h0, critical_density_0, Om0), each left at its default
\* or passed as None
Init ==
    /\ param = None
    /\ last = NoOp
    /\ \E h0 \in {None, Omitted}, critical_density_0 \in {None, Omitted},
          Om0 \in {None, Omitted} :
          cosmo = FlatLambdaCDM_init(h0, critical_density_0, Om0)

Next == CallMethods \/ Return

Spec == Init /\ [][Next]_vars

(***************************************************************************)
(* Properties of Param, checked under ParamSpec.                           *)
(***************************************************************************)
Constructed == last.op = "Param"
Converted == last.op = "Param.to"

\* C1 (as stated): constructing a Param with a value T and a shape argument S
\* that differs from T's shape always raises, and no Param object results.
C1_MismatchAlwaysRaises ==
    (Constructed /\ last.value # None /\ last.shape # Omitted
                 /\ last.shape # last.value.shape)
        => (last.raised = "ValueError" /\ param = None)

\* C1 (amended): constructing a Param with a value T and a shape argument S
\* other than None that differs from T's shape always raises ValueError, and
\* no Param object results.
C1_TupleMismatchRaises ==
    (Constructed /\ last.value # None /\ last.shape \in Shapes
                 /\ last.shape # last.value.shape)
        => (last.raised = "ValueError" /\ param = None)

C1_Witness ==
    /\ Constructed /\ last.value # None /\ last.shape \in Shapes
    /\ last.shape # last.value.shape
    /\ last.raised = "ValueError"

\* C2: a Param that holds a value has the shape of that value, whatever was
\* passed as the shape argument, after construction and after any to() calls.
C2_ShapeIsValueShape ==
    (param # None /\ param.value # None) => param.shape = param.value.shape

\* C3: constructing a Param with only a value (shape not passed) succeeds for a
\* value of any shape and yields a static Param with the value's shape.
C3_ValueOnlySucceeds ==
    (Constructed /\ last.value # None /\ last.shape = Omitted)
        => /\ last.raised = NoRaise
           /\ param # None
           /\ Param_static(param)
           /\ param.shape = last.value.shape

\* C4: a Param is static or dynamic and never both, it is dynamic exactly when
\* it holds no value, a Param constructed with only a shape is dynamic with
\* value None, and to() keeps a dynamic Param dynamic.
C4_StaticXorDynamic ==
    /\ param # None =>
          /\ Param_static(param) # Param_dynamic(param)
          /\ Param_dynamic(param) <=> (param.value = None)
    /\ (Constructed /\ last.value = None) =>
          (last.raised = NoRaise /\ param # None /\ Param_dynamic(param)
              /\ param.value = None)
    /\ (Converted /\ Param_dynamic(last.before)) =>
          (Param_dynamic(param) /\ param.value = None)

C4_Witness ==
    /\ Converted /\ Param_dynamic(last.before) /\ Param_dynamic(param)
    /\ last.device # None /\ last.dtype # None

\* C8: to() leaves a dynamic Param as it was (value None), keeps the shape of
\* every Param, and on a static Param changes only the device and the dtype of
\* the stored value (its contents re-encoded in the new dtype).
C8_ToFrame ==
    Converted =>
        /\ param # None
        /\ param.shape = last.before.shape
        /\ last.before.value = None => param = last.before
        /\ last.before.value # None =>
              /\ param.value # None
              /\ param.value.shape = last.before.value.shape
              /\ param.value.device \in {last.device, last.before.value.device}
              /\ param.value.dtype \in {last.dtype, last.before.value.dtype}
              /\ param.value.data = Cast(last.before.value.data, param.value.dtype)

C8_Witness ==
    /\ Converted /\ last.before.value # None
    /\ param.value.device # last.before.value.device
    /\ param.value.dtype # last.before.value.dtype

(***************************************************************************)
(* Properties of FlatLambdaCDM.to, checked under ToSpec.                   *)
(***************************************************************************)
Carries(t, device, dtype) ==
    /\ device # None => t.device = device
    /\ dtype # None => t.dtype = dtype

\* C7: after cosmo.to(device, dtype) every static Param value and both helper
\* grids carry the requested device and dtype (an absent one is kept), dynamic
\* Params are as before, and applying to() again with the same arguments
\* leaves every Param and both grids as they are.
C7_ToIdempotentAndComplete ==
    last.op = "FlatLambdaCDM.to" =>
        /\ FlatLambdaCDM_to(cosmo, last.device, last.dtype) = cosmo
        /\ \A n \in Names :
              IF Param_static(last.before.params[n])
              THEN /\ Param_static(cosmo.params[n])
                   /\ Carries(cosmo.params[n].value, last.device, last.dtype)
              ELSE cosmo.params[n] = last.before.params[n]
        /\ Carries(cosmo.x_grid, last.device, last.dtype)
        /\ Carries(cosmo.y_grid, last.device, last.dtype)

C7_Witness ==
    /\ last.op = "FlatLambdaCDM.to"
    /\ last.device = cuda /\ last.dtype = float64
    /\ Param_static(cosmo.params["h0"]) /\ Param_dynamic(cosmo.params["Om0"])
    /\ cosmo.params["h0"].value # last.before.params["h0"].value
    /\ cosmo.x_grid # last.before.x_grid

(***************************************************************************)
(* Properties of calls of decorated methods, checked under Spec.           *)
(***************************************************************************)
Called == last.op = "call"

\* the non-None overrides of a call
Given(kwargs) == {n \in DOMAIN kwargs : kwargs[n] # None}

\* C5: a non-None keyword override of a declared parameter is the value used
\* to compute the result of critical_density, comoving_distance and
\* transverse_comoving_distance, and transverse_comoving_distance ends as
\* comoving_distance does with the same overrides.
C5_OverrideWins ==
    (Called /\ last.method \in Declaring) =>
        /\ last.result.raised = NoRaise =>
              \A n \in Given(last.kwargs) \cap DOMAIN last.result.value :
                  last.result.value[n] = last.kwargs[n]
        /\ last.method = "transverse_comoving_distance" =>
              LET d == comoving_distance(cosmo, last.z1, last.params, last.kwargs)
              IN  last.result.raised = d.raised /\ last.result.value = d.value

\* the decorated methods a method's body calls
Callees(method) ==
    CASE method = "comoving_distance" -> {"_comoving_distance_helper"}
      [] method = "transverse_comoving_distance" -> {"comoving_distance"}
      [] method = "comoving_distance_z1z2" -> {"comoving_distance"}
      [] method = "transverse_comoving_distance_z1z2" -> {"transverse_comoving_distance"}
      [] method = "angular_diameter_distance" -> {"comoving_distance"}
      [] method = "angular_diameter_distance_z1z2" -> {"comoving_distance_z1z2"}
      [] method \in {"time_delay_distance", "critical_surface_density"} ->
             {"angular_diameter_distance", "angular_diameter_distance_z1z2"}
      [] OTHER -> {}

OwnDeclared(method) == IF method \in Declaring THEN DeclaredNames ELSE {}

RECURSIVE ChainDeclared(_)
ChainDeclared(method) ==
    OwnDeclared(method) \cup UNION {ChainDeclared(m) : m \in Callees(method)}

Plain == Called /\ Given(last.kwargs) = {}
DynamicOf(S) == {n \in S : Param_dynamic(cosmo.params[n])}
Unresolved == last.result.raised = "UnresolvedDynamicParam"
Succeeds == last.result.raised = NoRaise

\* C6 (as stated): with params=None and no overrides a call succeeds if every
\* parameter the method declares is static and raises UnresolvedDynamicParam
\* if one is dynamic; it also raises when the Packed given lacks the entry of
\* a dynamic declared parameter.
C6_OwnDeclaredDecide ==
    Plain =>
        LET dyn == DynamicOf(OwnDeclared(last.method))
        IN  /\ (last.params = None /\ dyn = {}) => Succeeds
            /\ (last.params = None /\ dyn # {}) => Unresolved
            /\ (last.params # None /\ dyn \ DOMAIN last.params.entries # {})
                    => Unresolved

\* C6 (amended): the same, with the parameters declared by the method or by a
\* decorated method it calls, directly or not; in particular a FlatLambdaCDM
\* built with its defaults serves every call with params=None.
C6_ChainDeclaredDecide ==
    Plain =>
        LET dyn == DynamicOf(ChainDeclared(last.method))
        IN  /\ (last.params = None /\ dyn = {}) => Succeeds
            /\ (last.params = None /\ dyn # {}) => Unresolved
            /\ (last.params # None /\ dyn \ DOMAIN last.params.entries # {})
                    => Unresolved
            /\ (last.params = None
                  /\ cosmo = FlatLambdaCDM_init(Omitted, Omitted, Omitted))
                    => Succeeds

C6_Witness ==
    /\ Plain /\ last.method = "critical_density"
    /\ last.params # None
    /\ Param_dynamic(cosmo.params["h0"]) /\ Param_static(cosmo.params["Om0"])
    /\ "h0" \notin DOMAIN last.params.entries
    /\ "critical_density_0" \in DOMAIN last.params.entries
    /\ Unresolved

\* C9: every decorated call nested in a call resolves against the params
\* container the outermost caller passed, and the call leaves the module's
\* Param store and helper grids as they were.
C9_SameParamsNoMutation ==
    Called => (last.result.seen = {last.params} /\ cosmo = last.before)

C9_Witness ==
    /\ Called /\ last.method = "time_delay_distance"
    /\ last.params # None
    /\ DynamicOf(Names) = {"h0", "Om0"}
    /\ Succeeds

\* the same call without keyword arguments
PlainCall == Call(cosmo, last.method, last.z1, last.z2, last.params, NoKwargs)

\* C10 (as stated): an override of a name the method does not declare changes
\* nothing: the call ends as the same call without it.
C10_UndeclaredIgnored ==
    (Called /\ last.method \notin Declaring) => last.result = PlainCall

\* C10 (amended): an override of a name the method does not declare raises no
\* error of its own; every such method but angular_diameter_distance ends as
\* the same call without it, and angular_diameter_distance hands it on to
\* comoving_distance, which applies it.
C10_UndeclaredForwardedOrIgnored ==
    (Called /\ last.method \notin Declaring) =>
        /\ ~Succeeds => PlainCall.raised = last.result.raised
        /\ last.method # "angular_diameter_distance" => last.result = PlainCall
        /\ last.method = "angular_diameter_distance" =>
              LET d == comoving_distance(cosmo, last.z1, last.params, last.kwargs)
              IN  /\ last.result.raised = d.raised
                  /\ Succeeds => last.result.value.a = d.value

C10_Witness ==
    /\ Called /\ last.method = "angular_diameter_distance"
    /\ Given(last.kwargs) = {"h0"}
    /\ Succeeds
    /\ last.result # PlainCall

====
